---- MODULE Spec2Model ----
(***************************************************************************)
(* Model of the slack-version-bot: the /version and /logs command          *)
(* handlers (app.py), the cluster-introspection engine (k8s_utils.py),     *)
(* the command parser (bot_utils.py) and the two-stage redaction gateway.  *)
(*                                                                         *)
(* Text is modelled as a sequence of lines, a line as a sequence of cells, *)
(* a cell as a string with the width it is left-justified to (0: none).    *)
(***************************************************************************)
EXTENDS Integers, Sequences, FiniteSets, TLC

VARIABLES
    pc,             \* position of the handler coroutine
    cmd,            \* "/version" or "/logs"
    payload,        \* body['text'], a sequence of tokens
    acked,          \* ack() has been awaited
    podsOutcome,    \* what list_namespaced_pod did: "-", "ok", "ApiException"
    slicesOutcome,  \* what list_namespaced_endpoint_slice did
    endpoint_slices,\* the value __get_endpoint_slices returned
    running_pods,   \* the value __get_running_pods returned
    filtered_pods,  \* the value __filter_endpoints_by_running_pods returned
    probeState,     \* per probe task: "pending", "inflight", "done"
    probeOut,       \* per probe task: what the HTTP layer did ("-" before)
    versions,       \* per probe task: the result gather() collects
    arrived,        \* probe task indices in the order they completed
    logState,       \* per log task: "pending", "inflight", "done"
    logOut,         \* per log task: what read_namespaced_pod_log did
    logs_results,   \* per log task: the result gather() collects
    logs,           \* app.get_service_logs: what kube_utils.get_service_logs returned
    result,         \* value the awaited app-level call will return
    raised,         \* exception raised inside KubernetesUtils ("" if none)
    redactCalls,    \* calls made to the two redaction stages, in order
    responses,      \* texts passed to respond(), in order
    calls,          \* cluster-API reads and HTTP GETs issued, in order
    cluster_pods,   \* the pods matching the selector when they were listed
    tasks,          \* concurrent /logs handler tasks: position and locals
    censored_content, \* credentials_data_scanner.censored_content
    loopHolder      \* the task running between two awaits (0: none)

vars == <<pc, cmd, payload, acked, podsOutcome, slicesOutcome, endpoint_slices,
          running_pods, filtered_pods, probeState, probeOut, versions, arrived,
          logState, logOut, logs_results, logs, result, raised, redactCalls,
          responses, calls, cluster_pods, tasks, censored_content, loopHolder>>
\* the state of one invocation followed end to end
mainVars == <<pc, cmd, payload, acked, podsOutcome, slicesOutcome,
              endpoint_slices, running_pods, filtered_pods, probeState,
              probeOut, versions, arrived, logState, logOut, logs_results,
              logs, result, raised, redactCalls, responses, calls,
              cluster_pods>>
\* the state of handler tasks sharing the process-wide secret scanner
sharedVars == <<tasks, censored_content, loopHolder>>

(* ------------------------------ bounds --------------------------------- *)
MaxPods == 2
MaxSlices == 2

(* --------------------------- program constants ------------------------- *)
DEFAULT_LOG_LINES == 10
PROBE_TIMEOUT == 3
NameWidth == 35
IpWidth == 16
UptimeWidth == 20
VersionWidth == 15
DividerLen == 110

(* ------------------------------- text ---------------------------------- *)
Cell(s) == [s |-> s, w |-> 0]
Pad(s, w) == [s |-> s, w |-> w]
Lit(s) == << <<Cell(s)>> >>
\* the Slack code-block delimiter (three backquotes)
Fence == Cell("<code-fence>")

Ok(v) == [ok |-> TRUE, val |-> v]
Raise(e) == [ok |-> FALSE, val |-> Lit(e)]

None == [none |-> TRUE, items |-> <<>>]
Some(x) == [none |-> FALSE, items |-> x]

RECURSIVE Concat(_)
Concat(ss) == IF ss = <<>> THEN <<>> ELSE Head(ss) \o Concat(Tail(ss))

NoDupSeqs(S, n) ==
    UNION {{s \in [1..k -> S] : \A i, j \in 1..k : i # j => s[i] # s[j]} : k \in 0..n}

(* ------------------- the cluster and the chat input -------------------- *)
\* A payload (body['text']) is a sequence of characters. The strings the
\* model writes payloads with, and reads parsed keys and values back as:
Vocabulary ==
    {"service", "namespace", "lines", "my-service", "web", "20", "--help",
     "--help20", "=", " "}
Chars(word) ==
    CASE word = "service" -> <<"s", "e", "r", "v", "i", "c", "e">>
      [] word = "namespace" -> <<"n", "a", "m", "e", "s", "p", "a", "c", "e">>
      [] word = "lines" -> <<"l", "i", "n", "e", "s">>
      [] word = "my-service" -> <<"m", "y", "-", "s", "e", "r", "v", "i", "c", "e">>
      [] word = "web" -> <<"w", "e", "b">>
      [] word = "20" -> <<"2", "0">>
      [] word = "--help" -> <<"-", "-", "h", "e", "l", "p">>
      [] word = "--help20" -> <<"-", "-", "h", "e", "l", "p", "2", "0">>
      [] word = "=" -> <<"=">>
      [] word = " " -> <<" ">>
      [] OTHER -> <<>>
\* the string a character sequence spells
Str(chars) ==
    IF \E w \in Vocabulary : Chars(w) = chars
    THEN CHOOSE w \in Vocabulary : Chars(w) = chars
    ELSE "<other>"
Raw(words) == Concat([i \in 1..Len(words) |-> Chars(words[i])])
Payloads ==
    { Raw(<<>>),
      Raw(<<"--help">>),
      Raw(<<"service", "=", "my-service">>),
      Raw(<<"service", "=", "my-service", " ", "namespace", "=", "web">>),
      Raw(<<"service", "=", "my-service", " ", "lines", "=", "20">>),
      Raw(<<"service", "=", " ", "namespace", "=", "web">>),
      Raw(<<"service", "=", "--help20">>) }

Commands == {"/version", "/logs"}

\* Pod objects the API server can return for the Running field selector.
Now == 1000
PodObjs ==
    { [name |-> "pod-a", namespace |-> "web", pod_ip |-> "10.0.0.5",
       phase |-> "Running", creation_timestamp |-> Some(<<700>>)],
      [name |-> "pod-b", namespace |-> "web", pod_ip |-> "10.0.0.6",
       phase |-> "Running", creation_timestamp |-> None],
      [name |-> "pod-c", namespace |-> "web", pod_ip |-> "10.0.0.5",
       phase |-> "Running", creation_timestamp |-> Some(<<400>>)],
      [name |-> "pod-d", namespace |-> "web", pod_ip |-> "10.0.0.9",
       phase |-> "Pending", creation_timestamp |-> Some(<<900>>)] }

\* What the API server answers to list_namespaced_pod: of the pods that
\* match the label selector, those the field selector admits.
IsRunning(pod) == pod.phase = "Running"
list_namespaced_pod(items, fields) ==
    IF fields = "status.phase=Running" THEN SelectSeq(items, IsRunning)
    ELSE items

\* EndpointSlice objects: endpoints (each with addresses, possibly None)
\* and ports (possibly None: unspecified).
Endpoint(a) == [addresses |-> a]
SliceObjs ==
    { [endpoints |-> Some(<<Endpoint(None), Endpoint(Some(<<"10.0.0.5">>))>>),
       ports |-> Some(<<8080>>)],
      [endpoints |-> Some(<<Endpoint(Some(<<"10.0.0.6", "10.0.0.9">>))>>),
       ports |-> Some(<<8080, 9090>>)],
      [endpoints |-> Some(<<Endpoint(Some(<<"10.0.0.5">>))>>),
       ports |-> Some(<<>>)],
      [endpoints |-> Some(<<Endpoint(Some(<<"10.0.0.6">>))>>),
       ports |-> None] }

ListOutcomes == {"ok", "ApiException"}

\* What the service listening on ip:port answers on the version path.
ServerBody(ip, port) ==
    CASE ip = "10.0.0.5" /\ port = 8080 -> "v1.2.3"
      [] ip = "10.0.0.6" /\ port = 8080 -> "v2.0.0"
      [] OTHER -> ""
\* How one HTTP GET can end: a status code, a timeout, a refused connection.
ProbeOutcomes == {"200", "500", "timeout", "refused"}

\* The log tail the API server returns for a pod (a sequence of lines).
PodLog(name) ==
    CASE name = "pod-a" -> << <<Cell("login"), Cell("AKIA-SECRET")>>,
                              <<Cell("mail"), Cell("bob@example.com")>> >>
      [] name = "pod-b" -> << <<Cell("started")>> >>
      [] OTHER -> << <<Cell("ready")>> >>
LogOutcomes == {"ok", "ApiException", "Exception"}

(* ----------------------- bot_utils.parse_user_input -------------------- *)
\* the character classes \w and \s of the two patterns
WordChars ==
    {"a", "b", "c", "d", "e", "f", "g", "h", "i", "j", "k", "l", "m", "n", "o",
     "p", "q", "r", "s", "t", "u", "v", "w", "x", "y", "z", "0", "1", "2", "3",
     "4", "5", "6", "7", "8", "9", "_"}
IsWord(c) == c \in WordChars
IsSpace(c) == c = " "

\* the last index of the longest run from i of characters satisfying a class
WordRunEnd(p, i) ==
    CHOOSE e \in i..Len(p) :
        /\ \A n \in (i + 1)..e : IsWord(p[n])
        /\ e < Len(p) => ~IsWord(p[e + 1])
ValueRunEnd(p, i) ==
    CHOOSE e \in i..Len(p) :
        /\ \A n \in (i + 1)..e : ~IsSpace(p[n])
        /\ e < Len(p) => IsSpace(p[e + 1])

\* (\w+)=([^\s]+) matches at i: a word run, "=", at least one non-space
MatchAt(p, i) ==
    /\ IsWord(p[i])
    /\ WordRunEnd(p, i) + 2 <= Len(p)
    /\ p[WordRunEnd(p, i) + 1] = "="
    /\ ~IsSpace(p[WordRunEnd(p, i) + 2])

Tok(k, v) == [k |-> k, v |-> v]
\* re.findall(key_value_pattern, payload) scanning from a position: the
\* non-overlapping matches, left to right (the position and the two run
\* ends are each computed once, as the scanner's own locals are)
RECURSIVE FindAll(_, _)
FindAll(p, from) ==
    CHOOSE found \in
        { IF i > Len(p) THEN <<>>
          ELSE IF MatchAt(p, i)
          THEN CHOOSE rest \in
                 { <<Tok(Str(SubSeq(p, i, keyEnd)), Str(SubSeq(p, keyEnd + 2, valEnd)))>>
                   \o FindAll(p, valEnd + 1) :
                       valEnd \in {ValueRunEnd(p, keyEnd + 2)} } : TRUE
          ELSE FindAll(p, i + 1) :
              i \in {from},
              keyEnd \in {IF from > Len(p) THEN from ELSE WordRunEnd(p, from)} } : TRUE

\* the dict comprehension: a later pair overrides an earlier one
KeyValues(m) == 1..Len(m)
LastOf(m, key) ==
    CHOOSE i \in KeyValues(m) :
        m[i].k = key /\ \A j \in KeyValues(m) : m[j].k = key => j <= i

HelpNeedle == <<"-", "-", "h", "e", "l", "p">>
\* faulty variant: "--help" counts only as a whole flag, as the unused
\* flag_pattern would find it
ContainsHelpFlag(p) ==
    \E i \in 1..(Len(p) - 5) :
        /\ SubSeq(p, i, i + 5) = HelpNeedle
        /\ i + 6 <= Len(p) => ~IsWord(p[i + 6])
\* "--help" in payload
ContainsHelp(p) ==
    \E i \in 1..(Len(p) - 5) : SubSeq(p, i, i + 5) = HelpNeedle

\* the returned dict: its keys other than 'help', their values, and 'help'
parse_user_input(p) ==
    LET matches == FindAll(p, 1)
        parsed_keys == {matches[i].k : i \in KeyValues(matches)} \ {"help"}
    IN  [keys |-> parsed_keys,
         val  |-> [key \in parsed_keys |-> matches[LastOf(matches, key)].v],
         help |-> ContainsHelp(p)]
\* faulty variant: a missing key yields None whatever the default
GetNoDefault(parsed, key, default) ==
    IF key \in parsed.keys THEN parsed.val[key] ELSE "<None>"
Get(parsed, key, default) ==
    IF key \in parsed.keys THEN parsed.val[key] ELSE default

NoneStr == "<None>"
\* faulty variant: only the empty string counts, a missing key passes
FalsyEmptyOnly(s) == s = ""
Falsy(s) == s \in {"", NoneStr}

get_version_help_message == Lit("*Service Version Command Usage:*")
get_logs_help_message == Lit("*Service Logs Command Usage:*")

(* ---------------------- KubernetesUtils: resolver ---------------------- *)
calculate_uptime(creation_time) ==
    IF ~creation_time.none THEN ToString(Now - creation_time.items[1])
    ELSE "Unknown"

\* faulty variant: no field selector is sent
field_selector_none == ""
\* the field selector __get_running_pods sends with the listing
field_selector == "status.phase=Running"
\* faulty variant: a failed listing falls back on a list kept from before
get_running_pods_cached(outcome, items) ==
    IF outcome = "ok"
    THEN [i \in 1..Len(items) |->
            [name |-> items[i].name, namespace |-> items[i].namespace,
             ip |-> items[i].pod_ip,
             uptime |-> calculate_uptime(items[i].creation_timestamp)]]
    ELSE <<[name |-> "pod-a", namespace |-> "web", ip |-> "10.0.0.5",
            uptime |-> "300"]>>
\* __get_running_pods: the list on success, [] on any exception
get_running_pods(outcome, items) ==
    IF outcome = "ok"
    THEN [i \in 1..Len(items) |->
            [name |-> items[i].name, namespace |-> items[i].namespace,
             ip |-> items[i].pod_ip,
             uptime |-> calculate_uptime(items[i].creation_timestamp)]]
    ELSE <<>>

\* __get_endpoint_slices: the items on success, [] on any exception
get_endpoint_slices(outcome, items) == IF outcome = "ok" THEN items ELSE <<>>

(* --------------------- KubernetesUtils: correlator --------------------- *)
\* address in valid_pod_ips
AddressMatches(address, pods) == \E i \in 1..Len(pods) : pods[i].ip = address

\* faulty variant: the info of the first pod, whatever its ip
PodInfoFirst(address, pods) == pods[1]
\* pod_ip_to_info[address]: the dict comprehension keeps the last pod per ip
\* (the "Unknown Pod" default of .get is never taken: the address is a key)
PodInfo(address, pods) ==
    pods[CHOOSE i \in 1..Len(pods) :
            pods[i].ip = address /\ \A j \in 1..Len(pods) : pods[j].ip = address => j <= i]

\* An exception inside the loops (iterating None) is caught and [] returned.
FilterRaises(pods, slices) ==
    \E k \in 1..Len(slices) :
        \/ slices[k].endpoints.none
        \/ /\ slices[k].ports.none
           /\ \E e \in 1..Len(slices[k].endpoints.items) :
                LET a == slices[k].endpoints.items[e].addresses IN
                ~a.none /\ \E n \in 1..Len(a.items) : AddressMatches(a.items[n], pods)

RecordsOfAddress(address, slice, pods) ==
    IF AddressMatches(address, pods)
    THEN [p \in 1..Len(slice.ports.items) |->
            [name |-> PodInfo(address, pods).name,
             namespace |-> PodInfo(address, pods).namespace,
             ip |-> address,
             port |-> slice.ports.items[p],
             uptime |-> PodInfo(address, pods).uptime]]
    ELSE <<>>

RecordsOfEndpoint(endpoint, slice, pods) ==
    IF ~endpoint.addresses.none /\ endpoint.addresses.items # <<>>
    THEN Concat([n \in 1..Len(endpoint.addresses.items) |->
                    RecordsOfAddress(endpoint.addresses.items[n], slice, pods)])
    ELSE <<>>

\* faulty variant: a record for every running pod, advertised or not
filter_every_running_pod(pods, slices) ==
    [i \in 1..Len(pods) |->
        [name |-> pods[i].name, namespace |-> pods[i].namespace,
         ip |-> pods[i].ip, port |-> 8080, uptime |-> pods[i].uptime]]
filter_endpoints_by_running_pods(pods, slices) ==
    IF FilterRaises(pods, slices) THEN <<>>
    ELSE Concat([k \in 1..Len(slices) |->
            Concat([e \in 1..Len(slices[k].endpoints.items) |->
                RecordsOfEndpoint(slices[k].endpoints.items[e], slices[k], pods)])])

(* ----------------------- KubernetesUtils: prober ----------------------- *)
VOk(v) == [ok |-> TRUE, val |-> v]
VRaise(e) == [ok |-> FALSE, val |-> e]
NotYet == VRaise("<pending>")

\* faulty variant: no try/except around the GET
get_service_version_unguarded(ip, port, outcome) ==
    IF outcome = "200" THEN VOk(ServerBody(ip, port))
    ELSE IF outcome = "500" THEN VOk("") ELSE VRaise(outcome)
\* __get_service_version: the body on status 200, "" on any other status
\* and on any exception (timeout, refused connection)
get_service_version(ip, port, outcome) ==
    IF outcome = "200" THEN VOk(ServerBody(ip, port)) ELSE VOk("")

\* faulty variant: results queued in completion order
CollectByArrival(buffer, i, n, v) == [buffer EXCEPT ![n] = v]
\* asyncio.gather: the result of the i-th awaitable goes to position i
\* (n is the number of awaitables completed so far, this one included)
Collect(buffer, i, n, v) == [buffer EXCEPT ![i] = v]

\* faulty variant: resumes on the first completion
SomeDone(state) == \E i \in 1..Len(state) : state[i] = "done"
\* the await on asyncio.gather resumes when every awaitable has finished
AllDone(state) == \A i \in 1..Len(state) : state[i] = "done"

(* ------------------ KubernetesUtils: info report ----------------------- *)
Placeholder == <<"No pods were found.", "", "N/A", "N/A", "N/A">>

\* faulty variant: the collected value is shown as it is, empty or not
InfoResultsRaw(filtered, vers) ==
    IF filtered # <<>>
    THEN [i \in 1..Len(filtered) |->
            <<filtered[i].name, filtered[i].ip, filtered[i].uptime, vers[i]>>]
    ELSE <<Placeholder>>
\* results of get_services_info: one tuple per endpoint, or the placeholder
InfoResults(filtered, vers) ==
    IF filtered # <<>>
    THEN [i \in 1..Len(filtered) |->
            <<filtered[i].name, filtered[i].ip, filtered[i].uptime,
              IF vers[i] # "" THEN vers[i] ELSE "Version Unavailable">>]
    ELSE <<Placeholder>>

InfoRow(t) ==
    <<Pad(t[1], NameWidth), Pad(t[2], IpWidth), Pad(t[3], UptimeWidth),
      Pad(t[4], VersionWidth)>>

\* the formatting part of get_services_info; "for name, ip, uptime, version
\* in results" raises ValueError on a tuple that has not four elements
FormatInfo(results) ==
    IF \E i \in 1..Len(results) : Len(results[i]) # 4
    THEN Raise("ValueError")
    ELSE Ok(<< <<Cell("*Kubernetes Pod Information*")>>,
               <<Fence>> \o InfoRow(<<"Pod Name", "Pod IP", "Uptime", "Version">>),
               [i \in 1..DividerLen |-> Cell("-")] >>
            \o [i \in 1..Len(results) |-> InfoRow(results[i])]
            \o << <<Fence>> >>)

\* KubernetesUtils.get_services_info after the fan-out: gather raises what
\* a probe raised; the except clause logs and re-raises
KU_get_services_info(filtered, vers) ==
    IF \E i \in 1..Len(vers) : ~vers[i].ok
    THEN Raise("ProbeError")
    ELSE FormatInfo(InfoResults(filtered, [i \in 1..Len(vers) |-> vers[i].val]))

\* faulty variant: the wrapper lets the exception through to the handler
app_get_services_info_reraise(r) == r
\* app.get_services_info: returns the info, or the literal on any exception
app_get_services_info(r) ==
    IF r.ok THEN r ELSE Ok(Lit("Error retrieving service info"))

(* -------------------- KubernetesUtils: log fetcher --------------------- *)
\* __get_pod_logs: the log text, or an error string naming the pod
\* faulty variant: the error string does not name the pod
get_pod_logs_anon(pod_name, outcome) ==
    IF outcome = "ok" THEN PodLog(pod_name)
    ELSE << <<Cell("Error fetching logs: "), Cell(outcome)>> >>
get_pod_logs(pod_name, outcome) ==
    CASE outcome = "ok" -> PodLog(pod_name)
      [] outcome = "ApiException" ->
            << <<Cell("Error fetching logs for pod "), Cell(pod_name),
                 Cell(": "), Cell(outcome)>> >>
      [] OTHER ->
            << <<Cell("Unexpected error while fetching logs for pod "),
                 Cell(pod_name), Cell(": "), Cell(outcome)>> >>

LogHeader(label_selector) ==
    <<Cell("*Service Logs for "), Cell(label_selector),
      Cell(". Sensitive data will be censored*")>>
LogOpen(pod_name) ==
    <<Cell("---- Logs from Pod: "), Cell(pod_name), Cell(" ----")>>
LogClose == <<Cell("--------------------------------------------")>>

\* faulty variant: only the log segments, no header and no separators
FormatLogsHeaderless(label_selector, pods, segments) ==
    Concat([i \in 1..Len(pods) |-> segments[i]])
\* faulty variant: pod names paired with the segments in reverse order
FormatLogsReversed(label_selector, pods, segments) ==
    <<LogHeader(label_selector), <<Fence>> >>
    \o Concat([i \in 1..Len(pods) |->
            (IF i > 1 THEN << <<>> >> ELSE <<>>)
            \o <<LogOpen(pods[i].name)>>
            \o segments[Len(pods) + 1 - i] \o <<LogClose>>])
    \o << <<Fence>> >>
\* the formatting part of KubernetesUtils.get_service_logs
FormatLogs(label_selector, pods, segments) ==
    <<LogHeader(label_selector), <<Fence>> >>
    \o Concat([i \in 1..Len(pods) |->
            (IF i > 1 THEN << <<>> >> ELSE <<>>)
            \o <<LogOpen(pods[i].name)>> \o segments[i] \o <<LogClose>>])
    \o << <<Fence>> >>

(* -------------------------- redaction gateway -------------------------- *)
Stars == "******"
Truthy(text) ==
    Len(text) > 1 \/ \E i \in 1..Len(text) : \E j \in 1..Len(text[i]) : text[i][j].s # ""

ReplaceAll(text, found) ==
    [i \in 1..Len(text) |->
        [j \in 1..Len(text[i]) |->
            IF text[i][j].s \in found THEN [text[i][j] EXCEPT !.s = Stars]
            ELSE text[i][j]]]

\* What a TruffleHog run reports: it fails, or it prints raw results.
RawCandidates == {"AKIA-SECRET"}
Scans == {[ok |-> FALSE, found |-> {}]} \cup {[ok |-> TRUE, found |-> f] : f \in SUBSET RawCandidates}
\* TruffleHogCensor.censor_data: every raw result replaced by the stars;
\* a failed run raises RuntimeError
trufflehog_censor_data(content, scan) ==
    IF scan.ok THEN Ok(ReplaceAll(content, scan.found))
    ELSE Raise("RuntimeError")

\* What the entity analyzer reports: it raises, or it finds entities.
EntityCandidates == {"bob@example.com"}
Analyses == {[ok |-> FALSE, found |-> {}]} \cup {[ok |-> TRUE, found |-> f] : f \in SUBSET EntityCandidates}
\* SensitiveDataCensor.censor_sensitive_data: entities replaced; an
\* exception is logged and re-raised
censor_sensitive_data(text, analysis) ==
    IF analysis.ok THEN Ok(ReplaceAll(text, analysis.found))
    ELSE Raise("AnalyzerError")

\* app.censor_data, given what stage 1 returns when called on data (out1)
\* and what stage 2 returns when called on stage 1's value (out2)
Stage1Called(data) == Truthy(data)
Stage2Called(data, out1) ==
    IF Stage1Called(data) THEN out1.ok /\ Truthy(out1.val) ELSE FALSE
censor_data(data, out1, out2) ==
    IF Stage1Called(data) /\ ~out1.ok THEN out1
    ELSE IF Stage2Called(data, out1) THEN out2
    ELSE Ok(data)

\* app.get_service_logs after the await: the censored logs, or the literal
\* on any exception
app_get_service_logs(data, out1, out2) ==
    IF censor_data(data, out1, out2).ok THEN censor_data(data, out1, out2)
    ELSE Ok(Lit("Error retrieving service logs"))

\* the redaction calls censor_data makes, in order
RedactCallsOf(data, out1, out2) ==
    (IF Stage1Called(data)
     THEN <<[stage |-> 1, input |-> data, output |-> out1]>> ELSE <<>>)
    \o (IF Stage2Called(data, out1)
        THEN <<[stage |-> 2, input |-> out1.val, output |-> out2]>> ELSE <<>>)

(* ----------------------------- handlers -------------------------------- *)
\* the catch-all of handle_version_request / handle_logs_request
HandlerText(r, c) ==
    IF r.ok THEN r.val
    ELSE IF c = "/version"
         THEN Lit("An error occurred while processing the /version request.")
         ELSE Lit("An error occurred while processing the /logs request.")

(* ------------------------------ actions -------------------------------- *)
\* handler tasks that can be in flight at once
MaxInvocations == 2
Invocations == 1..MaxInvocations
\* a task before it is dispatched: no content, no scan, nothing returned
IdleTask ==
    [pc |-> "idle", content |-> <<>>, scan |-> [ok |-> TRUE, found |-> {}],
     out |-> Ok(<<>>)]

Init ==
    /\ pc = "idle"
    /\ cmd = "/version"
    /\ payload = <<>>
    /\ acked = FALSE
    /\ podsOutcome = "-"
    /\ slicesOutcome = "-"
    /\ endpoint_slices = <<>>
    /\ running_pods = <<>>
    /\ filtered_pods = <<>>
    /\ probeState = <<>>
    /\ probeOut = <<>>
    /\ versions = <<>>
    /\ arrived = <<>>
    /\ logState = <<>>
    /\ logOut = <<>>
    /\ logs_results = <<>>
    /\ logs = <<>>
    /\ result = Ok(<<>>)
    /\ raised = ""
    /\ redactCalls = <<>>
    /\ responses = <<>>
    /\ calls = <<>>
    /\ cluster_pods = <<>>
    /\ tasks = [j \in Invocations |-> IdleTask]
    /\ censored_content = <<>>
    /\ loopHolder = 0

\* Slack dispatches a command to its handler; every request-scoped value
\* starts afresh.
Receive(c, p) ==
    /\ pc \in {"idle", "done"}
    /\ pc' = "ack"
    /\ cmd' = c
    /\ payload' = p
    /\ acked' = FALSE
    /\ podsOutcome' = "-"
    /\ slicesOutcome' = "-"
    /\ endpoint_slices' = <<>>
    /\ running_pods' = <<>>
    /\ filtered_pods' = <<>>
    /\ probeState' = <<>>
    /\ probeOut' = <<>>
    /\ versions' = <<>>
    /\ arrived' = <<>>
    /\ logState' = <<>>
    /\ logOut' = <<>>
    /\ logs_results' = <<>>
    /\ logs' = <<>>
    /\ result' = Ok(<<>>)
    /\ raised' = ""
    /\ redactCalls' = <<>>
    /\ responses' = <<>>
    /\ calls' = <<>>
    /\ cluster_pods' = <<>>
    /\ UNCHANGED sharedVars

Service == Get(parse_user_input(payload), "service", NoneStr)
Namespace == Get(parse_user_input(payload), "namespace", "")
\* parsed_input.get('lines', DEFAULT_LOG_LINES): the text of the payload, or
\* the integer default
IntArg(n) == [int |-> TRUE, text |-> ToString(n)]
StrArg(t) == [int |-> FALSE, text |-> t]
LogLines ==
    IF "lines" \in parse_user_input(payload).keys
    THEN StrArg(parse_user_input(payload).val["lines"])
    ELSE IntArg(DEFAULT_LOG_LINES)

\* __construct_label_selector: '' for no value, else "<key>=<value>"
APPLICATION_LABEL_SELECTOR_KEY == "app.kubernetes.io/name"
APPLICATION_VERSION_URL == "/version"
construct_label_selector(value) ==
    IF Falsy(value) THEN <<>> ELSE <<APPLICATION_LABEL_SELECTOR_KEY, "=", value>>

\* the calls that leave the process
NoArg == [int |-> FALSE, text |-> ""]
ApiCall(api, ns, selector, fields, name, lines, ip, port, path, timeout) ==
    [api |-> api, namespace |-> ns, label_selector |-> selector,
     field_selector |-> fields, name |-> name, tail_lines |-> lines,
     ip |-> ip, port |-> port, path |-> path, timeout |-> timeout]
ListPodsCall(ns, selector) ==
    ApiCall("list_namespaced_pod", ns, selector, field_selector, "",
            NoArg, "", 0, "", 0)
ListSlicesCall(ns) ==
    ApiCall("list_namespaced_endpoint_slice", ns, <<>>, "", "", NoArg, "", 0, "", 0)
ReadLogCall(name, ns, lines) ==
    ApiCall("read_namespaced_pod_log", ns, <<>>, "", name, lines, "", 0, "", 0)
HttpGetCall(ip, port) ==
    ApiCall("http_get", "", <<>>, "", "", NoArg, ip, port,
            APPLICATION_VERSION_URL, PROBE_TIMEOUT)

\* faulty variant: no short-circuit on an empty pod list
NoRunningPodsNever(pods) == FALSE
\* "if not running_pods" in KubernetesUtils.get_service_logs
NoRunningPods(pods) == pods = <<>>

\* handle_*_request up to its first call out: ack, parse, help branch,
\* and for /logs the required-service check
Ack ==
    /\ pc = "ack"
    /\ acked' = TRUE
    /\ IF parse_user_input(payload).help
       THEN /\ result' = Ok(IF cmd = "/version" THEN get_version_help_message
                            ELSE get_logs_help_message)
            /\ pc' = "respond"
       ELSE IF cmd = "/logs" /\ Falsy(Service)
       THEN /\ result' = Ok(Lit("Error: 'service' is required when retrieving logs. Use --help to get the bot manual"))
            /\ pc' = "respond"
       ELSE /\ result' = result
            /\ pc' = "list_pods"
    /\ UNCHANGED <<calls, logs, cmd, payload, podsOutcome, slicesOutcome, endpoint_slices,
                   running_pods, filtered_pods, probeState, probeOut, versions,
                   arrived, logState, logOut, logs_results, raised,
                   redactCalls, responses>>
    /\ UNCHANGED sharedVars
    /\ UNCHANGED cluster_pods

\* __get_running_pods, and for /logs the empty-list short-circuit of
\* KubernetesUtils.get_service_logs
ListPods(outcome, items) ==
    /\ pc = "list_pods"
    /\ outcome # "ok" => items = <<>>
    /\ podsOutcome' = outcome
    /\ cluster_pods' = items
    /\ running_pods' = get_running_pods(outcome, list_namespaced_pod(items, field_selector))
    /\ IF cmd = "/version"
       THEN /\ pc' = "list_slices"
            /\ UNCHANGED <<logs, logState, logOut, logs_results>>
       ELSE IF NoRunningPods(running_pods')
       THEN /\ logs' = Lit("No running pods found for the specified service.")
            /\ pc' = "censor"
            /\ UNCHANGED <<logState, logOut, logs_results>>
       ELSE /\ logState' = [i \in 1..Len(running_pods') |-> "pending"]
            /\ logOut' = [i \in 1..Len(running_pods') |-> "-"]
            /\ logs_results' = [i \in 1..Len(running_pods') |-> <<>>]
            /\ pc' = "fetch_logs"
            /\ UNCHANGED logs
    /\ calls' = Append(calls, ListPodsCall(Namespace, construct_label_selector(Service)))
    /\ UNCHANGED <<result, cmd, payload, acked, slicesOutcome, endpoint_slices,
                   filtered_pods, probeState, probeOut, versions, arrived,
                   raised, redactCalls, responses>>
    /\ UNCHANGED sharedVars

\* __get_endpoint_slices and __filter_endpoints_by_running_pods; with no
\* endpoint get_services_info goes straight on to the report
ListSlices(outcome, items) ==
    /\ pc = "list_slices"
    /\ outcome # "ok" => items = <<>>
    /\ slicesOutcome' = outcome
    /\ endpoint_slices' = get_endpoint_slices(outcome, items)
    /\ filtered_pods' = filter_endpoints_by_running_pods(running_pods, endpoint_slices')
    /\ IF filtered_pods' # <<>>
       THEN /\ probeState' = [i \in 1..Len(filtered_pods') |-> "pending"]
            /\ probeOut' = [i \in 1..Len(filtered_pods') |-> "-"]
            /\ versions' = [i \in 1..Len(filtered_pods') |-> NotYet]
            /\ pc' = "probe"
            /\ UNCHANGED <<result, raised>>
       ELSE /\ raised' = IF KU_get_services_info(filtered_pods', <<>>).ok
                         THEN "" ELSE "ValueError"
            /\ result' = app_get_services_info(KU_get_services_info(filtered_pods', <<>>))
            /\ pc' = "respond"
            /\ UNCHANGED <<probeState, probeOut, versions>>
    /\ calls' = Append(calls, ListSlicesCall(Namespace))
    /\ UNCHANGED <<logs, cmd, payload, acked, podsOutcome, running_pods, arrived,
                   logState, logOut, logs_results, redactCalls, responses>>
    /\ UNCHANGED sharedVars
    /\ UNCHANGED cluster_pods

\* the task of probe i runs up to its HTTP GET; tasks start in list order
StartProbe(i) ==
    /\ pc = "probe"
    /\ probeState[i] = "pending"
    /\ \A j \in 1..(i - 1) : probeState[j] # "pending"
    /\ probeState' = [probeState EXCEPT ![i] = "inflight"]
    /\ calls' = Append(calls, HttpGetCall(filtered_pods[i].ip, filtered_pods[i].port))
    /\ UNCHANGED <<logs, pc, cmd, payload, acked, podsOutcome, slicesOutcome,
                   endpoint_slices, running_pods, filtered_pods, probeOut,
                   versions, arrived, logState, logOut, logs_results, result,
                   raised, redactCalls, responses>>
    /\ UNCHANGED sharedVars
    /\ UNCHANGED cluster_pods

\* the HTTP GET of probe i ends and the task returns its value
CompleteProbe(i, outcome) ==
    /\ pc = "probe"
    /\ probeState[i] = "inflight"
    /\ probeState' = [probeState EXCEPT ![i] = "done"]
    /\ probeOut' = [probeOut EXCEPT ![i] = outcome]
    /\ arrived' = Append(arrived, i)
    /\ versions' = Collect(versions, i, Len(arrived) + 1,
                      get_service_version(filtered_pods[i].ip, filtered_pods[i].port, outcome))
    /\ UNCHANGED <<calls, logs, pc, cmd, payload, acked, podsOutcome, slicesOutcome,
                   endpoint_slices, running_pods, filtered_pods, logState,
                   logOut, logs_results, result, raised, redactCalls, responses>>
    /\ UNCHANGED sharedVars
    /\ UNCHANGED cluster_pods

\* gather returns; get_services_info builds the report
JoinProbes ==
    /\ pc = "probe"
    /\ AllDone(probeState)
    /\ raised' = IF KU_get_services_info(filtered_pods, versions).ok THEN ""
                 ELSE KU_get_services_info(filtered_pods, versions).val[1][1].s
    /\ result' = app_get_services_info(KU_get_services_info(filtered_pods, versions))
    /\ pc' = "respond"
    /\ UNCHANGED <<calls, logs, cmd, payload, acked, podsOutcome, slicesOutcome,
                   endpoint_slices, running_pods, filtered_pods, probeState,
                   probeOut, versions, arrived, logState, logOut,
                   logs_results, redactCalls, responses>>
    /\ UNCHANGED sharedVars
    /\ UNCHANGED cluster_pods

\* __get_pod_logs holds no await: read_namespaced_pod_log(...).get() blocks
\* the event loop, so the task of pod i runs only when every earlier task
\* has returned
LogMayStart(state, i) ==
    state[i] = "pending" /\ \A j \in 1..(i - 1) : state[j] = "done"

\* the task of pod i issues its log read (the extra read made for a pod
\* with an empty namespace does not occur: metadata.namespace is never empty)
StartLog(i) ==
    /\ pc = "fetch_logs"
    /\ LogMayStart(logState, i)
    /\ logState' = [logState EXCEPT ![i] = "inflight"]
    /\ calls' = Append(calls, ReadLogCall(running_pods[i].name, running_pods[i].namespace, LogLines))
    /\ UNCHANGED <<logs, pc, cmd, payload, acked, podsOutcome, slicesOutcome,
                   endpoint_slices, running_pods, filtered_pods, probeState,
                   probeOut, versions, arrived, logOut, logs_results, result,
                   raised, redactCalls, responses>>
    /\ UNCHANGED sharedVars
    /\ UNCHANGED cluster_pods

\* the log read of pod i ends and the task returns its value
CompleteLog(i, outcome) ==
    /\ pc = "fetch_logs"
    /\ logState[i] = "inflight"
    /\ logState' = [logState EXCEPT ![i] = "done"]
    /\ logOut' = [logOut EXCEPT ![i] = outcome]
    /\ logs_results' = Collect(logs_results, i, i,
                          get_pod_logs(running_pods[i].name, outcome))
    /\ UNCHANGED <<calls, logs, pc, cmd, payload, acked, podsOutcome, slicesOutcome,
                   endpoint_slices, running_pods, filtered_pods, probeState,
                   probeOut, versions, arrived, result, raised, redactCalls,
                   responses>>
    /\ UNCHANGED sharedVars
    /\ UNCHANGED cluster_pods

\* gather returns; KubernetesUtils.get_service_logs builds the log report
JoinLogs ==
    /\ pc = "fetch_logs"
    /\ AllDone(logState)
    /\ logs' = FormatLogs(Service, running_pods, logs_results)
    /\ pc' = "censor"
    /\ UNCHANGED <<calls, result, cmd, payload, acked, podsOutcome, slicesOutcome,
                   endpoint_slices, running_pods, filtered_pods, probeState,
                   probeOut, versions, arrived, logState, logOut,
                   logs_results, raised, redactCalls, responses>>
    /\ UNCHANGED sharedVars
    /\ UNCHANGED cluster_pods

\* app.get_service_logs after the await, with the stages' returns given
CensorWith(out1, out2) ==
    /\ pc = "censor"
    /\ redactCalls' = RedactCallsOf(logs, out1, out2)
    /\ result' = app_get_service_logs(logs, out1, out2)
    /\ pc' = "respond"
    /\ UNCHANGED <<calls, logs, cmd, payload, acked, podsOutcome, slicesOutcome,
                   endpoint_slices, running_pods, filtered_pods, probeState,
                   probeOut, versions, arrived, logState, logOut,
                   logs_results, raised, responses>>
    /\ UNCHANGED sharedVars
    /\ UNCHANGED cluster_pods

\* censor_data with the two scanners of this repository
Censor(scan, analysis) ==
    CensorWith(trufflehog_censor_data(logs, scan),
               censor_sensitive_data(trufflehog_censor_data(logs, scan).val, analysis))

\* faulty variant: the text is passed to respond a second time
RespondTwice ==
    /\ pc = "respond"
    /\ responses' = responses \o <<HandlerText(result, cmd), HandlerText(result, cmd)>>
    /\ pc' = "done"
    /\ UNCHANGED <<calls, logs, cmd, payload, acked, podsOutcome, slicesOutcome,
                   endpoint_slices, running_pods, filtered_pods, probeState,
                   probeOut, versions, arrived, logState, logOut,
                   logs_results, result, raised, redactCalls, cluster_pods>>
    /\ UNCHANGED sharedVars
\* await respond(...), on the normal path or in the handler's catch-all
Respond ==
    /\ pc = "respond"
    /\ responses' = Append(responses, HandlerText(result, cmd))
    /\ pc' = "done"
    /\ UNCHANGED <<calls, logs, cmd, payload, acked, podsOutcome, slicesOutcome,
                   endpoint_slices, running_pods, filtered_pods, probeState,
                   probeOut, versions, arrived, logState, logOut,
                   logs_results, result, raised, redactCalls>>
    /\ UNCHANGED sharedVars
    /\ UNCHANGED cluster_pods

Next ==
    \/ \E c \in Commands, p \in Payloads : Receive(c, p)
    \/ Ack
    \/ \E o \in ListOutcomes, items \in NoDupSeqs(PodObjs, MaxPods) : ListPods(o, items)
    \/ \E o \in ListOutcomes, items \in NoDupSeqs(SliceObjs, MaxSlices) : ListSlices(o, items)
    \/ \E i \in 1..Len(probeState) : StartProbe(i)
    \/ \E i \in 1..Len(probeState), o \in ProbeOutcomes : CompleteProbe(i, o)
    \/ JoinProbes
    \/ \E i \in 1..Len(logState) : StartLog(i)
    \/ \E i \in 1..Len(logState), o \in LogOutcomes : CompleteLog(i, o)
    \/ JoinLogs
    \/ \E scan \in Scans, analysis \in Analyses : Censor(scan, analysis)
    \/ Respond

Spec == Init /\ [][Next]_vars

TypeOK ==
    /\ pc \in {"idle", "ack", "list_pods", "list_slices", "probe",
               "fetch_logs", "censor", "respond", "done"}
    /\ cmd \in Commands
    /\ Len(responses) <= 1

(* --- app.get_service_logs after log retrieval, for any stage returns --- *)
\* Texts kube_utils.get_service_logs can return.
RetrievedTexts ==
    {Lit("No running pods found for the specified service.")}
    \cup {FormatLogs("my-service", get_running_pods("ok", items),
                     [i \in 1..Len(items) |-> get_pod_logs(items[i].name, "ok")]) :
            items \in {list_namespaced_pod(c, field_selector) :
                        c \in NoDupSeqs(PodObjs, MaxPods)} \ {<<>>}}
\* Values a redaction stage can hand back: a text (empty included) or an
\* exception.
StageReturns ==
    {Ok(<<>>), Ok(Lit("")), Ok(Lit(Stars)), Ok(Lit("login ******")),
     Raise("StageError")}

InitCensor ==
    /\ pc = "censor"
    /\ cmd = "/logs"
    /\ payload = Raw(<<"service", "=", "my-service">>)
    /\ acked = TRUE
    /\ logs \in RetrievedTexts
    /\ podsOutcome = "-"
    /\ slicesOutcome = "-"
    /\ endpoint_slices = <<>>
    /\ running_pods = <<>>
    /\ filtered_pods = <<>>
    /\ probeState = <<>>
    /\ probeOut = <<>>
    /\ versions = <<>>
    /\ arrived = <<>>
    /\ logState = <<>>
    /\ logOut = <<>>
    /\ logs_results = <<>>
    /\ result = Ok(<<>>)
    /\ raised = ""
    /\ redactCalls = <<>>
    /\ responses = <<>>
    /\ calls = <<>>
    /\ cluster_pods = <<>>
    /\ tasks = [j \in Invocations |-> IdleTask]
    /\ censored_content = <<>>
    /\ loopHolder = 0

NextCensor ==
    \/ \E out1 \in StageReturns, out2 \in StageReturns : CensorWith(out1, out2)
    \/ Respond

SpecCensor == InitCensor /\ [][NextCensor]_vars

(* ------------------------------ claims --------------------------------- *)
Responded == pc = "done" /\ Len(responses) = 1
Response == responses[1]
ErrorTexts ==
    {Lit("Error retrieving service info"), Lit("Error retrieving service logs"),
     Lit("An error occurred while processing the /version request."),
     Lit("An error occurred while processing the /logs request.")}

\* the correlator has run in this invocation and produced no EndpointRecord
NoEndpointCase ==
    cmd = "/version" /\ slicesOutcome # "-" /\ filtered_pods = <<>>

\* a text is the info report with exactly one row, the placeholder
IsPlaceholderReport(t) ==
    /\ Len(t) = 5
    /\ t[1] = <<[s |-> "*Kubernetes Pod Information*", w |-> 0]>>
    /\ Len(t[2]) = 5
    /\ <<t[2][2].s, t[2][3].s, t[2][4].s, t[2][5].s>>
         = <<"Pod Name", "Pod IP", "Uptime", "Version">>
    /\ Len(t[3]) = 110 /\ \A i \in 1..Len(t[3]) : t[3][i].s = "-"
    /\ Len(t[4]) >= 1 /\ t[4][1].s = "No pods were found."
    /\ t[5] = <<Fence>>

\* C1: a /version invocation whose correlator yields no EndpointRecord
\* answers with the info report holding exactly the placeholder row "No pods
\* were found.", not with an error string.
C1_PlaceholderReport ==
    (Responded /\ NoEndpointCase)
        => IsPlaceholderReport(Response) /\ Response \notin ErrorTexts

\* C2: a cluster-API failure while listing pods or endpoint slices is never
\* surfaced as an error: the caller gets the 'no pods found' outcome (the
\* redaction stages not failing), never an "Error ..." string.
C2_ListingFailureDegrades ==
    (/\ Responded
     /\ podsOutcome = "ApiException" \/ slicesOutcome = "ApiException"
     /\ \A k \in 1..Len(redactCalls) : redactCalls[k].output.ok)
        => /\ Response \notin ErrorTexts
           /\ cmd = "/version" => IsPlaceholderReport(Response)
           /\ cmd = "/logs" =>
                Response = Lit("No running pods found for the specified service.")

\* C3: for every return value of the two stages, what a /logs invocation
\* that retrieved log text responds with is a fixed error literal or stage 2
\* applied to stage 1 applied to the retrieved text.
C3_NothingUnredacted ==
    (/\ Responded /\ cmd = "/logs" /\ logs # <<>>
     /\ logs # Lit("No running pods found for the specified service."))
        => \/ Response \in ErrorTexts
           \/ /\ Len(redactCalls) = 2
              /\ redactCalls[1].stage = 1 /\ redactCalls[1].input = logs
              /\ redactCalls[2].stage = 2
              /\ redactCalls[2].input = redactCalls[1].output.val
              /\ redactCalls[2].output.ok
              /\ Response = redactCalls[2].output.val

\* an exception was raised while get_services_info assembled the report
AggregationRaised == cmd = "/version" /\ raised # ""

\* C4 as stated: an exception raised while assembling the info report
\* reaches the /version handler's catch-all and the caller gets "An error
\* occurred while processing the /version request."
C4_HandlerCatchAll ==
    (Responded /\ AggregationRaised)
        => Response = Lit("An error occurred while processing the /version request.")

\* C4 amended: the exception leaves KubernetesUtils.get_services_info and is
\* converted by app.get_services_info; the caller gets "Error retrieving
\* service info" and the handler's catch-all is not involved.
C4_WrapperConverts ==
    (Responded /\ AggregationRaised)
        => Response = <<<<[s |-> "Error retrieving service info", w |-> 0]>>>>

C4_Witness == Responded /\ AggregationRaised

\* the fan-out of a /version invocation has been joined
ProbesJoined ==
    cmd = "/version" /\ filtered_pods # <<>> /\ pc \in {"respond", "done"}

\* what the probe issued for endpoint record e produced, given how its
\* HTTP GET ended
ProbeResultFor(e, outcome) ==
    IF outcome = "200"
    THEN (CASE e.ip = "10.0.0.5" /\ e.port = 8080 -> "v1.2.3"
            [] e.ip = "10.0.0.6" /\ e.port = 8080 -> "v2.0.0"
            [] OTHER -> "")
    ELSE ""

\* C5: whatever order the probes complete in, the collected versions have
\* the length of the endpoint list, versions[i] is the outcome of the probe
\* issued for endpoint i, and report row i pairs pod i with versions[i].
C5_PositionallyAligned ==
    ProbesJoined =>
        /\ Len(versions) = Len(filtered_pods)
        /\ \A i \in 1..Len(filtered_pods) :
            /\ versions[i].ok
            /\ versions[i].val = ProbeResultFor(filtered_pods[i], probeOut[i])
            /\ result.val[i + 3][1].s = filtered_pods[i].name
            /\ result.val[i + 3][4].s =
                 (IF ProbeResultFor(filtered_pods[i], probeOut[i]) # ""
                  THEN ProbeResultFor(filtered_pods[i], probeOut[i])
                  ELSE "Version Unavailable")

\* a joined fan-out whose first completion was not the first probe
C5_Witness ==
    /\ ProbesJoined /\ Responded
    /\ Len(filtered_pods) >= 2
    /\ arrived[1] # 1
    /\ \E i, j \in 1..Len(versions) : versions[i].val # versions[j].val

FailedProbes == {i \in 1..Len(probeOut) : probeOut[i] \in {"500", "timeout", "refused"}}

\* C6: for every subset of endpoints whose probe fails, the call completes
\* normally (nothing is raised, a report is returned), the failed endpoints
\* carry the empty marker and every other endpoint carries its own body.
C6_ProbeFailureIsolated ==
    ProbesJoined =>
        /\ raised = ""
        /\ result.ok /\ result.val \notin ErrorTexts
        /\ Len(result.val) = Len(filtered_pods) + 4
        /\ \A i \in FailedProbes : versions[i] = [ok |-> TRUE, val |-> ""]
        /\ \A i \in (1..Len(filtered_pods)) \ FailedProbes :
              versions[i] = [ok |-> TRUE, val |-> ProbeResultFor(filtered_pods[i], "200")]

\* a response built from a fan-out in which one probe timed out and another
\* returned its version
C6_Witness ==
    /\ ProbesJoined /\ Responded
    /\ \E i \in FailedProbes : probeOut[i] = "timeout"
    /\ \E i \in (1..Len(filtered_pods)) \ FailedProbes : versions[i].val # ""

\* C7: the report of a /version invocation is built and returned only after
\* every probe of the invocation has completed; it has a row for every
\* endpoint. (That probes overlap is what the witness shows.)
C7_JoinBarrier ==
    (cmd = "/version" /\ filtered_pods # <<>>) =>
        /\ pc \in {"respond", "done"} =>
              /\ \A i \in 1..Len(probeState) : probeState[i] = "done"
              /\ result.ok /\ Len(result.val) = Len(filtered_pods) + 4
        /\ pc = "probe" => responses = <<>>

\* a later probe is in flight while an earlier one has not completed
C7_Witness ==
    /\ pc = "probe"
    /\ \E i, j \in 1..Len(probeState) :
          i < j /\ probeState[i] = "inflight" /\ probeState[j] \in {"inflight", "done"}

\* C8: within one log fan-out the request of a later pod can be issued
\* while the request of an earlier pod is still outstanding.
C8_LogRequestsOverlap ==
    pc = "fetch_logs" =>
        \A j \in 1..Len(logState) :
            (/\ logState[j] = "pending"
             /\ \A i \in 1..(j - 1) : logState[i] # "pending")
                => ENABLED StartLog(j)

\* the correlator has run in this invocation
Correlated == cmd = "/version" /\ slicesOutcome # "-"

\* C9: every EndpointRecord has the ip of some input PodRecord and carries
\* that pod's name, namespace and uptime; an address matching no pod never
\* appears, neither as a record nor as an "Unknown Pod" row.
C9_JoinKey ==
    Correlated =>
        \A k \in 1..Len(filtered_pods) :
            /\ \E i \in 1..Len(running_pods) :
                  /\ running_pods[i].ip = filtered_pods[k].ip
                  /\ running_pods[i].name = filtered_pods[k].name
                  /\ running_pods[i].namespace = filtered_pods[k].namespace
                  /\ running_pods[i].uptime = filtered_pods[k].uptime
            /\ filtered_pods[k].name # "Unknown Pod"

\* records were produced from slices that also advertise an address no
\* running pod has
C9_Witness ==
    /\ Correlated /\ filtered_pods # <<>>
    /\ \E k \in 1..Len(endpoint_slices) :
        \E e \in 1..Len(endpoint_slices[k].endpoints.items) :
            LET a == endpoint_slices[k].endpoints.items[e].addresses IN
            \E n \in 1..Len(a.items) :
                \A i \in 1..Len(running_pods) : running_pods[i].ip # a.items[n]

\* a line the log formatter writes: the header, a pod separator, the closer
FormatterLine(line) ==
    /\ Len(line) >= 1
    /\ line[1].s \in {"*Service Logs for ", "---- Logs from Pod: ",
                      "--------------------------------------------"}

\* C10 as stated: redaction comes before the formatter, so the header line,
\* the separator lines and the pod names never pass through redaction.
C10_RedactBeforeFormat ==
    \A c \in 1..Len(redactCalls) :
        \A l \in 1..Len(redactCalls[c].input) : ~FormatterLine(redactCalls[c].input[l])

\* the log lines of pod i stand in text t at line k, framed by the
\* separator naming the pod and the closing separator
BlockAt(t, k, i) ==
    /\ k + Len(logs_results[i]) + 1 <= Len(t)
    /\ t[k] = <<[s |-> "---- Logs from Pod: ", w |-> 0],
                [s |-> running_pods[i].name, w |-> 0], [s |-> " ----", w |-> 0]>>
    /\ \A m \in 1..Len(logs_results[i]) : t[k + m] = logs_results[i][m]
    /\ t[k + Len(logs_results[i]) + 1]
         = <<[s |-> "--------------------------------------------", w |-> 0]>>

\* C10 amended: the formatter runs before redaction (Resolver, Log Fetcher,
\* Formatter, Redaction Gateway): what stage 1 receives is the assembled
\* report, header line first, with every pod's separator lines and pod name
\* around the log text as it was fetched.
C10_FormatBeforeRedact ==
    (cmd = "/logs" /\ running_pods # <<>> /\ redactCalls # <<>>) =>
        LET t == redactCalls[1].input IN
        /\ redactCalls[1].stage = 1
        /\ t[1] = <<[s |-> "*Service Logs for ", w |-> 0], [s |-> Service, w |-> 0],
                    [s |-> ". Sensitive data will be censored*", w |-> 0]>>
        /\ \A i \in 1..Len(running_pods) : \E k \in 1..Len(t) : BlockAt(t, k, i)

C10_Witness ==
    /\ Responded /\ cmd = "/logs" /\ Len(running_pods) >= 2
    /\ Len(redactCalls) = 2
    /\ redactCalls[1].output.val # redactCalls[1].input

\* censor_data has run in this /logs invocation
Censored == cmd = "/logs" /\ pc \in {"respond", "done"} /\ logs # <<>>

\* a text is what Python takes for false: the empty string
EmptyText(t) == \A i \in 1..Len(t) : \A j \in 1..Len(t[i]) : t[i][j].s = ""

\* C11: with an empty input neither stage is invoked and the empty value is
\* returned; when stage 1 returns an empty value, stage 2 is not invoked
\* and the gateway returns that empty value.
C11_ShortCircuit ==
    Censored =>
        /\ (Len(logs) <= 1 /\ EmptyText(logs)) =>
              redactCalls = <<>> /\ result = [ok |-> TRUE, val |-> logs]
        /\ (/\ Len(redactCalls) >= 1
            /\ redactCalls[1].output.ok
            /\ Len(redactCalls[1].output.val) <= 1
            /\ EmptyText(redactCalls[1].output.val)) =>
              /\ Len(redactCalls) = 1
              /\ result = [ok |-> TRUE, val |-> redactCalls[1].output.val]

\* payloads that carry no service value and no help flag
NoServicePayloads ==
    { <<>>,
      <<"s", "e", "r", "v", "i", "c", "e", "=", " ",
        "n", "a", "m", "e", "s", "p", "a", "c", "e", "=", "w", "e", "b">> }

\* the handler of this invocation has gone past ack and parsing
Parsed == pc \notin {"idle", "ack"}

\* C12: a /logs invocation without a service value and without the help
\* flag responds with the required-parameter literal and issues no
\* cluster-API call and no redaction call, before or after responding.
C12_ServiceRequired ==
    (Parsed /\ cmd = "/logs" /\ payload \in NoServicePayloads) =>
        /\ calls = <<>>
        /\ redactCalls = <<>>
        /\ pc \in {"respond", "done"}
        /\ Responded => Response = <<<<[s |-> "Error: 'service' is required when retrieving logs. Use --help to get the bot manual", w |-> 0]>>>>

C12_Witness ==
    /\ Responded /\ cmd = "/logs"
    /\ payload \in NoServicePayloads /\ payload # <<>>

\* the payload contains the six characters "--help" in a row
HasHelpSubstring(p) ==
    \E i \in 1..Len(p) :
        /\ i + 5 <= Len(p)
        /\ p[i] = "-" /\ p[i + 1] = "-" /\ p[i + 2] = "h"
        /\ p[i + 3] = "e" /\ p[i + 4] = "l" /\ p[i + 5] = "p"

\* C13: for both commands the help flag is set exactly when the payload
\* contains "--help" anywhere, and a help invocation responds with the
\* command's help text and issues no cluster-API call, no HTTP probe and no
\* redaction call.
C13_HelpBypasses ==
    Parsed =>
        /\ parse_user_input(payload).help = HasHelpSubstring(payload)
        /\ HasHelpSubstring(payload) =>
              /\ calls = <<>>
              /\ redactCalls = <<>>
              /\ pc \in {"respond", "done"}
              /\ Responded =>
                    Response = (IF cmd = "/version"
                                THEN <<<<[s |-> "*Service Version Command Usage:*", w |-> 0]>>>>
                                ELSE <<<<[s |-> "*Service Logs Command Usage:*", w |-> 0]>>>>)
        /\ (~HasHelpSubstring(payload) /\ Responded) =>
              /\ Response # <<<<[s |-> "*Service Version Command Usage:*", w |-> 0]>>>>
              /\ Response # <<<<[s |-> "*Service Logs Command Usage:*", w |-> 0]>>>>

\* a help response to a payload that has "--help" inside a key=value token
C13_Witness ==
    /\ Responded
    /\ HasHelpSubstring(payload)
    /\ Len(payload) > 6 /\ \E i \in 1..Len(payload) : payload[i] = "="

\* C14: with an empty resolved pod list (a failed listing included)
\* KubernetesUtils.get_service_logs returns "No running pods found for the
\* specified service." and issues no log read.
C14_EmptyPodsShortCircuit ==
    (cmd = "/logs" /\ podsOutcome # "-" /\ running_pods = <<>>) =>
        /\ logs = <<<<[s |-> "No running pods found for the specified service.", w |-> 0]>>>>
        /\ pc # "fetch_logs"
        /\ \A k \in 1..Len(calls) : calls[k].api # "read_namespaced_pod_log"

C14_Witness ==
    /\ Responded /\ cmd = "/logs"
    /\ podsOutcome = "ApiException" /\ running_pods = <<>>

\* KubernetesUtils.get_service_logs has built a report from fetched logs
LogReportBuilt ==
    /\ cmd = "/logs" /\ pc \in {"censor", "respond", "done"}
    /\ running_pods # <<>>
    /\ Len(logs_results) = Len(running_pods)

\* what the log read of pod i produced, told from the read's outcome alone
SegmentOfPod(seg, i) ==
    IF logOut[i] = "ok"
    THEN seg = PodLog(running_pods[i].name)
    ELSE /\ Len(seg) = 1
         /\ Len(seg[1]) >= 2
         /\ seg[1][1].s \in {"Error fetching logs for pod ",
                             "Unexpected error while fetching logs for pod "}
         /\ seg[1][2].s = running_pods[i].name

\* lines of the report taken by the blocks of pods 1..n, blank lines between
RECURSIVE BlocksLen(_)
BlocksLen(n) ==
    IF n = 0 THEN 0
    ELSE BlocksLen(n - 1) + (IF n > 1 THEN 1 ELSE 0) + Len(logs_results[n]) + 2

\* line of the report on which the block of pod i opens
BlockStart(i) == 2 + BlocksLen(i - 1) + (IF i > 1 THEN 1 ELSE 0) + 1

\* the block of pod i: its name line, a segment, the closing line
PodBlock(t, i, seg) ==
    /\ BlockStart(i) + Len(seg) + 1 <= Len(t)
    /\ t[BlockStart(i)] = <<[s |-> "---- Logs from Pod: ", w |-> 0],
                            [s |-> running_pods[i].name, w |-> 0],
                            [s |-> " ----", w |-> 0]>>
    /\ \A m \in 1..Len(seg) : t[BlockStart(i) + m] = seg[m]
    /\ t[BlockStart(i) + Len(seg) + 1]
         = <<[s |-> "--------------------------------------------", w |-> 0]>>

\* C15: whichever pods' log reads fail, the full log report is still
\* returned; a failed pod's block holds an error string naming that pod and
\* every other block holds exactly its own pod's log text.
C15_LogFailureIsolated ==
    (LogReportBuilt /\ \E i \in 1..Len(running_pods) : logOut[i] # "ok") =>
        /\ raised = ""
        /\ Len(logs) = 2 + BlocksLen(Len(running_pods)) + 1
        /\ logs[1][1].s = "*Service Logs for "
        /\ \A i \in 1..Len(running_pods) :
              \E seg \in {logs_results[i]} :
                  SegmentOfPod(seg, i) /\ PodBlock(logs, i, seg)

C15_Witness ==
    /\ LogReportBuilt /\ Len(running_pods) = 2
    /\ logOut[1] # "ok" /\ logOut[2] = "ok"
    /\ PodLog(running_pods[2].name) # PodLog(running_pods[1].name)

\* the lines of the report on which a pod block opens, in order
OpeningLines(t) ==
    { k \in 1..Len(t) : Len(t[k]) = 3 /\ t[k][1].s = "---- Logs from Pod: " }

\* C16: the log report has exactly one delimited block per resolved pod, in
\* the resolver's order, and block i pairs pod i's name with the segment
\* fetched for pod i.
C16_OneBlockPerPod ==
    LogReportBuilt =>
        /\ OpeningLines(logs) = { BlockStart(i) : i \in 1..Len(running_pods) }
        /\ Cardinality(OpeningLines(logs)) = Len(running_pods)
        /\ \A i \in 1..Len(running_pods) :
              /\ PodBlock(logs, i, logs_results[i])
              /\ SegmentOfPod(logs_results[i], i)

C16_Witness ==
    /\ LogReportBuilt /\ Len(running_pods) = 2
    /\ logOut[1] = "ok" /\ logOut[2] = "ok"
    /\ logs_results[1] # logs_results[2]

\* get_services_info has returned to the /version handler
InfoReturned ==
    cmd = "/version" /\ slicesOutcome # "-" /\ pc \in {"respond", "done"}

\* the addresses the listed endpoint slices advertise
AdvertisedIps ==
    { a \in {"10.0.0.5", "10.0.0.6", "10.0.0.9"} :
        \E k \in 1..Len(endpoint_slices) :
            /\ ~endpoint_slices[k].endpoints.none
            /\ \E e \in 1..Len(endpoint_slices[k].endpoints.items) :
                 LET ad == endpoint_slices[k].endpoints.items[e].addresses IN
                 ~ad.none /\ \E n \in 1..Len(ad.items) : ad.items[n] = a }

\* the running pods that no listed endpoint slice advertises
UnadvertisedPods ==
    { i \in 1..Len(running_pods) : running_pods[i].ip \notin AdvertisedIps }

\* C17: the info report has exactly one row per endpoint record, in the
\* correlator's order, and a running pod whose ip no endpoint slice
\* advertises gets no row and no HTTP probe.
C17_OneRowPerRecord ==
    InfoReturned =>
        /\ filtered_pods # <<>> =>
              /\ result.ok
              /\ Len(result.val) = 3 + Len(filtered_pods) + 1
              /\ \A i \in 1..Len(filtered_pods) :
                    /\ Len(result.val[3 + i]) = 4
                    /\ result.val[3 + i][1] = [s |-> filtered_pods[i].name, w |-> 35]
                    /\ result.val[3 + i][2] = [s |-> filtered_pods[i].ip, w |-> 16]
                    /\ result.val[3 + i][3] = [s |-> filtered_pods[i].uptime, w |-> 20]
        /\ \A i \in 1..Len(filtered_pods) : filtered_pods[i].ip \in AdvertisedIps
        /\ \A p \in UnadvertisedPods :
              /\ \A k \in 1..Len(calls) :
                    calls[k].api = "http_get" => calls[k].ip # running_pods[p].ip
              /\ \A l \in 1..Len(result.val) : \A c \in 1..Len(result.val[l]) :
                    /\ result.val[l][c].s # running_pods[p].ip
                    /\ result.val[l][c].s # running_pods[p].name

\* a report with rows, built while one running pod was advertised by no slice
C17_Witness ==
    /\ InfoReturned /\ Responded
    /\ filtered_pods # <<>> /\ raised = ""
    /\ UnadvertisedPods # {}

\* the body the server at the endpoint of record e answers with
BodyOf(e) ==
    CASE e.ip = "10.0.0.5" /\ e.port = 8080 -> "v1.2.3"
      [] e.ip = "10.0.0.6" /\ e.port = 8080 -> "v2.0.0"
      [] OTHER -> ""

\* the version cell of the row of endpoint record i
VersionShown(i) == result.val[3 + i][4].s

\* C18 as stated: a probe that receives 200 shows the body text, whatever
\* the body (the empty body included); every other probe outcome shows
\* "Version Unavailable".
C18_BodyShown ==
    ProbesJoined =>
        \A i \in 1..Len(filtered_pods) :
            VersionShown(i) = (IF probeOut[i] = "200" THEN BodyOf(filtered_pods[i])
                               ELSE "Version Unavailable")

\* C18: a probe that receives 200 with a non-empty body shows the body
\* text; a probe that receives 200 with an empty body, or ends in any other
\* status, a timeout, a connection error or an exception, shows
\* "Version Unavailable".
C18_NonEmptyBodyShown ==
    ProbesJoined =>
        \A i \in 1..Len(filtered_pods) :
            VersionShown(i) =
                (IF probeOut[i] = "200" /\ BodyOf(filtered_pods[i]) # ""
                 THEN BodyOf(filtered_pods[i])
                 ELSE "Version Unavailable")

\* a report with a 200 of empty body, a 200 with a version and a failed probe
C18_Witness ==
    /\ ProbesJoined /\ Responded
    /\ \E i, j \in 1..Len(filtered_pods) :
          /\ probeOut[i] = "200" /\ BodyOf(filtered_pods[i]) = ""
          /\ probeOut[j] = "200" /\ BodyOf(filtered_pods[j]) # ""

\* the payload holds the characters of key at the start of a word, followed
\* by "=" and at least one character that is not a space
KeyPresent(p, key) ==
    \E i \in 1..Len(p) :
        /\ i + Len(key) + 1 <= Len(p)
        /\ \A n \in 1..Len(key) : p[i + n - 1] = key[n]
        /\ p[i + Len(key)] = "="
        /\ p[i + Len(key) + 1] # " "
        /\ i > 1 => p[i - 1] = " "

ListCalls ==
    { k \in 1..Len(calls) :
        calls[k].api \in {"list_namespaced_pod", "list_namespaced_endpoint_slice"} }
LogReadCalls == { k \in 1..Len(calls) : calls[k].api = "read_namespaced_pod_log" }

\* C20: parsing yields a mapping for every payload; without a namespace key
\* the handlers use the empty namespace, without a lines key the logs
\* handler uses 10, and "service=my-service namespace=web" yields service
\* "my-service", namespace "web", help false and lines 10.
C20_DefaultsForAbsentKeys ==
    Parsed =>
        LET parsed_input == parse_user_input(payload) IN
        /\ acked
        /\ parsed_input.help \in BOOLEAN
        /\ DOMAIN parsed_input.val = parsed_input.keys
        /\ ~KeyPresent(payload, <<"n", "a", "m", "e", "s", "p", "a", "c", "e">>) =>
              \A k \in ListCalls : calls[k].namespace = ""
        /\ ~KeyPresent(payload, <<"l", "i", "n", "e", "s">>) =>
              \A k \in LogReadCalls : calls[k].tail_lines = [int |-> TRUE, text |-> "10"]
        /\ payload = <<"s", "e", "r", "v", "i", "c", "e", "=",
                       "m", "y", "-", "s", "e", "r", "v", "i", "c", "e", " ",
                       "n", "a", "m", "e", "s", "p", "a", "c", "e", "=", "w", "e", "b">> =>
              /\ parsed_input.keys = {"service", "namespace"}
              /\ parsed_input.val["service"] = "my-service"
              /\ parsed_input.val["namespace"] = "web"
              /\ parsed_input.help = FALSE
              /\ \A k \in ListCalls : calls[k].namespace = "web"
              /\ \A k \in LogReadCalls : calls[k].tail_lines = [int |-> TRUE, text |-> "10"]
              /\ \A k \in 1..Len(calls) : calls[k].api = "list_namespaced_pod" =>
                    calls[k].label_selector = <<"app.kubernetes.io/name", "=", "my-service">>

\* a /logs invocation without namespace and lines keys that read a pod's log
C20_Witness ==
    /\ Responded /\ cmd = "/logs"
    /\ ~KeyPresent(payload, <<"n", "a", "m", "e", "s", "p", "a", "c", "e">>)
    /\ ~KeyPresent(payload, <<"l", "i", "n", "e", "s">>)
    /\ LogReadCalls # {}

(* ---- concurrent /logs invocations sharing credentials_data_scanner ---- *)
\* faulty variant: a task may be resumed while another is between awaits
LoopFreeAlways(j) == TRUE
\* the event loop runs task j only when no other task is between two awaits:
\* censor_data is a plain function, it holds the loop until it returns
LoopFree(j) == loopHolder \in {0, j}

\* Slack dispatches /logs; the handler runs up to the await on
\* kube_utils.get_service_logs
Dispatch(j) ==
    /\ tasks[j].pc = "idle"
    /\ LoopFree(j)
    /\ tasks' = [tasks EXCEPT ![j] = [IdleTask EXCEPT !.pc = "awaiting"]]
    /\ loopHolder' = 0
    /\ UNCHANGED censored_content
    /\ UNCHANGED mainVars

\* the await returns the log report; app.censor_data calls the scanner,
\* whose first statement stores the content in the shared field
CensorStore(j, text) ==
    /\ tasks[j].pc = "awaiting"
    /\ LoopFree(j)
    /\ tasks' = [tasks EXCEPT ![j].pc = "stored", ![j].content = text]
    /\ censored_content' = text
    /\ loopHolder' = j
    /\ UNCHANGED mainVars

\* the scanner writes its own content to a temporary file, runs TruffleHog
\* on it and replaces each raw result in the shared field
CensorScan(j, scan) ==
    /\ tasks[j].pc = "stored"
    /\ LoopFree(j)
    /\ tasks' = [tasks EXCEPT ![j].pc = "scanned", ![j].scan = scan]
    /\ censored_content' = IF scan.ok THEN ReplaceAll(censored_content, scan.found)
                           ELSE censored_content
    /\ loopHolder' = j
    /\ UNCHANGED mainVars

\* the scanner returns the shared field, or raises when the run failed
CensorReturn(j) ==
    /\ tasks[j].pc = "scanned"
    /\ LoopFree(j)
    /\ tasks' = [tasks EXCEPT ![j].pc = "returned",
                              ![j].out = IF tasks[j].scan.ok THEN Ok(censored_content)
                                         ELSE Raise("RuntimeError")]
    /\ loopHolder' = j
    /\ UNCHANGED censored_content
    /\ UNCHANGED mainVars

\* the handler reaches await respond(...) and ends
TaskRespond(j) ==
    /\ tasks[j].pc = "returned"
    /\ LoopFree(j)
    /\ tasks' = [tasks EXCEPT ![j] = IdleTask]
    /\ loopHolder' = 0
    /\ UNCHANGED censored_content
    /\ UNCHANGED mainVars

NextShared ==
    \/ \E j \in Invocations : Dispatch(j)
    \/ \E j \in Invocations, text \in RetrievedTexts : CensorStore(j, text)
    \/ \E j \in Invocations, scan \in Scans : CensorScan(j, scan)
    \/ \E j \in Invocations : CensorReturn(j)
    \/ \E j \in Invocations : TaskRespond(j)

SpecShared == Init /\ [][NextShared]_vars

\* tasks inside the secret scanner's censor_data
InScanner == { j \in Invocations : tasks[j].pc \in {"stored", "scanned"} }

\* C19: in-flight /logs invocations never interleave writes to the shared
\* redaction state: while one invocation is inside the secret scanner no
\* other one is, the shared field holds only that invocation's content, and
\* the text the scanner returns to an invocation is that invocation's own
\* content with the raw results of its own scan replaced.
C19_NoInterleavedWrites ==
    /\ Cardinality(InScanner) <= 1
    /\ \A j \in Invocations :
          /\ tasks[j].pc = "stored" => censored_content = tasks[j].content
          /\ tasks[j].pc = "scanned" /\ tasks[j].scan.ok =>
                censored_content =
                    [l \in 1..Len(tasks[j].content) |->
                        [c \in 1..Len(tasks[j].content[l]) |->
                            IF tasks[j].content[l][c].s \in tasks[j].scan.found
                            THEN [s |-> "******", w |-> tasks[j].content[l][c].w]
                            ELSE tasks[j].content[l][c]]]
          /\ tasks[j].pc = "returned" /\ tasks[j].scan.ok =>
                tasks[j].out =
                    [ok |-> TRUE,
                     val |-> [l \in 1..Len(tasks[j].content) |->
                        [c \in 1..Len(tasks[j].content[l]) |->
                            IF tasks[j].content[l][c].s \in tasks[j].scan.found
                            THEN [s |-> "******", w |-> tasks[j].content[l][c].w]
                            ELSE tasks[j].content[l][c]]]]

\* an invocation got its scanned text back while another one, holding a
\* different content, was in flight and the field had held that content
C19_Witness ==
    \E j, k \in Invocations :
        /\ j # k
        /\ tasks[j].pc = "returned" /\ tasks[j].scan.ok /\ tasks[j].scan.found # {}
        /\ tasks[j].out.val # tasks[j].content
        /\ tasks[k].pc = "awaiting"

\* the pods that matched the selector at listing time in another phase
NotRunning ==
    { k \in 1..Len(cluster_pods) : cluster_pods[k].phase # "Running" }

\* a text names a pod, or shows its ip, in one of its cells
Mentions(t, pod) ==
    \E l \in 1..Len(t) : \E c \in 1..Len(t[l]) :
        t[l][c].s = pod.name \/ t[l][c].s = pod.pod_ip

\* C21: every pod record the resolver returns is a pod whose phase was
\* "Running" when the pods were listed; a pod in another phase gets no log
\* read and no probe, and appears in no info report and no log report.
C21_OnlyRunningPods ==
    podsOutcome # "-" =>
        /\ \A i \in 1..Len(running_pods) :
              \E k \in 1..Len(cluster_pods) :
                  /\ cluster_pods[k].name = running_pods[i].name
                  /\ cluster_pods[k].pod_ip = running_pods[i].ip
                  /\ cluster_pods[k].phase = "Running"
        /\ \A k \in NotRunning :
              /\ \A n \in 1..Len(calls) :
                    /\ calls[n].name # cluster_pods[k].name
                    /\ calls[n].ip # cluster_pods[k].pod_ip
              /\ ~Mentions(logs, cluster_pods[k])
              /\ result.ok => ~Mentions(result.val, cluster_pods[k])
              /\ \A r \in 1..Len(responses) : ~Mentions(responses[r], cluster_pods[k])

\* an info report with rows, built while a pending pod matched the selector
\* and an endpoint slice advertised that pod's address
C21_Witness ==
    /\ Responded /\ cmd = "/version"
    /\ NotRunning # {}
    /\ filtered_pods # <<>> /\ raised = ""
    /\ \E k \in NotRunning : cluster_pods[k].pod_ip \in AdvertisedIps

\* some running pod has this ip
IsRunningPodIp(a) == \E i \in 1..Len(running_pods) : running_pods[i].ip = a

\* the (ip, port) pairs one address of a slice stands for: one per port the
\* slice advertises when the address is a running pod's ip, none otherwise
PairsOfAddress(a, slice) ==
    IF IsRunningPodIp(a) /\ ~slice.ports.none
    THEN [q \in 1..Len(slice.ports.items) |-> <<a, slice.ports.items[q]>>]
    ELSE <<>>

PairsOfSlice(slice) ==
    IF slice.endpoints.none THEN <<>>
    ELSE Concat([e \in 1..Len(slice.endpoints.items) |->
            IF slice.endpoints.items[e].addresses.none THEN <<>>
            ELSE Concat([n \in 1..Len(slice.endpoints.items[e].addresses.items) |->
                    PairsOfAddress(slice.endpoints.items[e].addresses.items[n], slice)])])

\* C22: the correlator emits, for each endpoint address that is a running
\* pod's ip, exactly one record per port advertised on the slice carrying
\* the address; an address on a slice with an empty or unspecified port
\* list contributes nothing and leaves the records of the other slices and
\* addresses as they are.
C22_OneRecordPerPort ==
    Correlated =>
        [i \in 1..Len(filtered_pods) |-> <<filtered_pods[i].ip, filtered_pods[i].port>>]
            = Concat([k \in 1..Len(endpoint_slices) |-> PairsOfSlice(endpoint_slices[k])])

\* the handler of the current invocation has returned
Completed == pc = "done"

\* C23: on every path of either handler ack is called first and respond is
\* then called exactly once: nothing is called or sent before ack, no
\* handler completes without a response and none responds twice.
C23_AckThenRespondOnce ==
    /\ Len(responses) <= 1
    /\ ~acked => responses = <<>> /\ calls = <<>> /\ redactCalls = <<>>
    /\ pc \notin {"idle", "ack"} => acked
    /\ Completed => acked /\ Len(responses) = 1
    /\ pc \in {"list_pods", "list_slices", "probe", "fetch_logs", "censor", "respond"}
          => responses = <<>>

\* a completed invocation in which an exception was raised below the handler
C23_Witness ==
    /\ Completed /\ acked /\ Len(responses) = 1
    /\ raised # ""

\* the cluster-API operations issued so far (the HTTP probes go to the pods)
ClusterCalls == { k \in 1..Len(calls) : calls[k].api # "http_get" }

\* a call of this invocation with the given api, name, ip and port
Issued(api, name, ip, port) ==
    \E k \in 1..Len(calls) :
        /\ calls[k].api = api /\ calls[k].name = name
        /\ calls[k].ip = ip /\ calls[k].port = port

\* C24: no invocation mutates cluster state or keeps results for a later
\* request: every cluster-API operation is a list of pods, a list of
\* endpoint slices or a read of a pod log; an invocation starts with no pod,
\* endpoint, version or log data; and the data a response is built from
\* were obtained by calls of the same invocation.
C24_ReadOnlyAndFresh ==
    /\ \A k \in ClusterCalls :
          calls[k].api \in {"list_namespaced_pod", "list_namespaced_endpoint_slice",
                            "read_namespaced_pod_log"}
    /\ pc = "ack" =>
          /\ running_pods = <<>> /\ endpoint_slices = <<>> /\ filtered_pods = <<>>
          /\ versions = <<>> /\ logs_results = <<>> /\ logs = <<>>
          /\ calls = <<>> /\ responses = <<>>
    /\ running_pods # <<>> =>
          /\ Issued("list_namespaced_pod", "", "", 0)
          /\ \A i \in 1..Len(running_pods) :
                \E k \in 1..Len(cluster_pods) :
                    cluster_pods[k].name = running_pods[i].name
    /\ endpoint_slices # <<>> => Issued("list_namespaced_endpoint_slice", "", "", 0)
    /\ \A i \in 1..Len(versions) :
          versions[i] # [ok |-> FALSE, val |-> "<pending>"] =>
              Issued("http_get", "", filtered_pods[i].ip, filtered_pods[i].port)
    /\ \A i \in 1..Len(logs_results) :
          logs_results[i] # <<>> =>
              Issued("read_namespaced_pod_log", running_pods[i].name, "", 0)

\* a completed /logs invocation that listed the pods and read two logs
C24_Witness ==
    /\ Completed /\ cmd = "/logs"
    /\ Len(running_pods) = 2
    /\ Cardinality(ClusterCalls) = 3
    /\ \A i \in 1..Len(logs_results) : logs_results[i] # <<>>

====
